---------------------------- MODULE Spec2Model ----------------------------
(***************************************************************************)
(* Model of starky's BN128 digest and linear hash (eigen-zkvm):            *)
(*   starky/src/digest_bn128.rs      ElementDigest, the field mapping      *)
(*   starky/src/linearhash_bn128.rs  LinearHashBN128 (leaf hash, merge)    *)
(*   starky/benches/merklehash.rs    the Merkle tree's round trip          *)
(*                                                                         *)
(* Numbers keep their real width.  TLC's integers are 32 bits wide, so a   *)
(* 64-bit or 256-bit number is a little-endian sequence of base-2^16       *)
(* digits: a u64 (and a Goldilocks element) has 4 digits, an Fr repr and a *)
(* BigUint below 2^256 have 16.                                            *)
(***************************************************************************)
EXTENDS Integers, Sequences, FiniteSets, TLC

Base == 2^16
\* const DIGEST_SIZE: usize = 4;
DIGEST_SIZE == 4
\* digits of one 64-bit limb, and of the four limbs of an Fr
LimbDigits == 64 \div 16
FrDigits == DIGEST_SIZE * LimbDigits

(***************************************************************************)
(* Arbitrary-precision unsigned integers (num_bigint::BigUint, and the     *)
(* [u64; 4] of FrRepr) as digit sequences.                                 *)
(***************************************************************************)
\* (sequences are built with SubSeq, Append and \o, which TLC keeps as explicit
\* tuples)
ZeroDigits ==
    <<0, 0, 0, 0, 0, 0, 0, 0, 0, 0, 0, 0, 0, 0, 0, 0, 0, 0, 0, 0,
      0, 0, 0, 0, 0, 0, 0, 0, 0, 0, 0, 0, 0, 0, 0, 0, 0, 0, 0, 0>>

Zeros(n) == SubSeq(ZeroDigits, 1, n)

\* a extended with leading zero digits to n digits (n >= Len(a))
Pad(a, n) == IF Len(a) >= n THEN a ELSE a \o Zeros(n - Len(a))

\* digit i (from 1) of a, zero past its length
Digit(a, i) == IF i <= Len(a) THEN a[i] ELSE 0

\* a small natural (below 2^16) as an n-digit number
Small(k, n) == <<k>> \o Zeros(n - 1)

IsZero(a) == \A i \in 1..Len(a) : a[i] = 0

CeilDiv(a, b) == (a + b - 1) \div b
Min(a, b) == IF a < b THEN a ELSE b
Max(a, b) == IF a > b THEN a ELSE b

\* Evaluation order.  TLC evaluates the elements of a tuple from left to right
\* and an argument when it is first used; <<v1, .., vk, e>>[k + 1] is e,
\* computed after v1, .., vk.  The loops below are written this way so that a
\* long computation is a sequence of short ones.

\* let v = ..; Op(v): v is computed once, before Op's body
Then(v, Op(_)) == <<v, Op(v)>>[2]

RECURSIVE Iter(_, _, _)
\* Op applied n times to x0 (a loop), as two runs one after the other
Iter(Op(_), x0, n) ==
    IF n > 1 THEN LET h == Iter(Op, x0, n \div 2)
                  IN  <<h, Iter(Op, h, n - n \div 2)>>[2]
    ELSE IF n = 1 THEN Op(x0)
    ELSE x0

\* -1, 0, 1 as a < b, a = b, a > b: decided by the highest digit that differs
Cmp(a, b) ==
    Then({i \in 1..Max(Len(a), Len(b)) : Digit(a, i) # Digit(b, i)}, LAMBDA d :
        IF d = {} THEN 0
        ELSE Then(CHOOSE i \in d : \A j \in d : j <= i, LAMBDA t :
             IF Digit(a, t) < Digit(b, t) THEN -1 ELSE 1))

Lt(a, b) == Cmp(a, b) = -1
Geq(a, b) == Cmp(a, b) >= 0

\* a + b, one digit longer than the longer of the two
BigAdd(a, b) ==
    LET Step(w) ==
            LET t == Digit(a, Len(w[2]) + 1) + Digit(b, Len(w[2]) + 1) + w[1]
            IN  <<t \div Base, Append(w[2], t % Base)>>
    IN  Then(Iter(Step, <<0, <<>> >>, Max(Len(a), Len(b))), LAMBDA f : Append(f[2], f[1]))

\* a - b for a >= b, with the digits of a
BigSub(a, b) ==
    LET Step(w) ==
            LET t == a[Len(w[2]) + 1] - Digit(b, Len(w[2]) + 1) - w[1]
            IN  IF t < 0 THEN <<1, Append(w[2], t + Base)>> ELSE <<0, Append(w[2], t)>>
    IN  <<a, b, Iter(Step, <<0, <<>> >>, Len(a))[2]>>[3]

\* a * k + c for small k and c (c <= k < 2^15), one digit longer than a
MulSmallAdd(a, k, c) ==
    LET Step(w) ==
            LET t == a[Len(w[2]) + 1] * k + w[1]
            IN  <<t \div Base, Append(w[2], t % Base)>>
    IN  Then(Iter(Step, <<c, <<>> >>, Len(a)), LAMBDA f : Append(f[2], f[1]))

MulSmall(a, k) == MulSmallAdd(a, k, 0)

\* <<quotient, remainder>> of a by a small k (k <= 2^14), from the top digit down
DivSmall(a, k) ==
    LET Step(w) ==
            LET t == w[2] * Base + a[Len(a) - Len(w[1])]
            IN  <<<<t \div k>> \o w[1], t % k>>
    IN  <<a, Iter(Step, <<<<>>, 0>>, Len(a))>>[2]

\* a shifted left by whole digits (a * 2^(16*d))
ShlDigits(a, d) == Zeros(d) \o a

\* a shifted right by whole digits (a >> (16*d)), keeping the length of a
ShrDigits(a, d) ==
    IF d >= Len(a) THEN Zeros(Len(a)) ELSE SubSeq(a, d + 1, Len(a)) \o Zeros(d)

\* the low n digits of a (a & (2^(16*n) - 1))
LowDigits(a, n) == IF Len(a) >= n THEN SubSeq(a, 1, n) ELSE Pad(a, n)

RECURSIVE ReduceBy(_, _)
\* n mod m for n a small multiple of m at most, by subtraction, with the digits
\* of n
ReduceBy(n, m) == IF Lt(n, m) THEN n ELSE ReduceBy(BigSub(n, m), m)

\* (x * k + c) mod m for x < m, k <= 2^14, c < k, and m's top digit m[Len(m)]
\* not zero: the quotient is first estimated from the top digits (never over,
\* and short by 3 at most), the rest is subtracted
MulAddMod(x, k, c, m) ==
    LET n == Len(m)
    IN  Then(MulSmallAdd(Pad(x, n), k, c), LAMBDA t :
        Then(MulSmall(m, (t[n + 1] * Base + t[n]) \div (m[n] + 1)), LAMBDA s :
        LowDigits(ReduceBy(BigSub(t, s), m), n)))

\* BigUint's a % m: long division, half a digit (8 bits) of a at a time, from
\* the top; w[1] counts the half digits still to come
BigMod(a, m) ==
    LET Step(w) ==
            LET d == a[(w[1] + 1) \div 2]
            IN  <<w[1] - 1,
                  MulAddMod(w[2], 256, IF w[1] % 2 = 0 THEN d \div 256 ELSE d % 256, m)>>
    IN  <<a, Iter(Step, <<2 * Len(a), Zeros(Len(m))>>, 2 * Len(a))[2]>>[2]

\* BigUint::to_string / u64::to_string: the decimal digits, most significant first,
\* no leading zero, "0" for zero (16 bits give at most 5 decimal digits)
ToDecString(a) ==
    LET Step(w) ==
            IF IsZero(w[1]) THEN w
            ELSE Then(DivSmall(w[1], 10), LAMBDA qr : <<qr[1], <<qr[2]>> \o w[2]>>)
    IN  <<a, IF IsZero(a) THEN <<0>> ELSE Iter(Step, <<a, <<>> >>, 5 * Len(a))[2]>>[2]

\* hex::encode of the big-endian bytes: 4 hex digits per base-2^16 digit, most
\* significant first, leading zeros kept
HexEncode(a) ==
    LET Step(w) ==
            LET d == a[Len(w) \div 4 + 1]
            IN  <<d \div 4096, (d \div 256) % 16, (d \div 16) % 16, d % 16>> \o w
    IN  <<a, Iter(Step, <<>>, Len(a))>>[2]

\* str::trim_start_matches('0')
TrimStartZeros(s) ==
    LET nz == {i \in 1..Len(s) : s[i] # 0}
    IN  IF nz = {} THEN <<>>
        ELSE SubSeq(s, CHOOSE i \in nz : \A j \in nz : i <= j, Len(s))

\* the value of the hex digits s (most significant first), padded to whole
\* base-2^16 digits on the left
HexParse(s) ==
    LET Step(w) ==
            LET i    == Len(s) - 4 * Len(w)
                d(k) == IF i - k >= 1 THEN s[i - k] ELSE 0
            IN  Append(w, d(0) + 16 * d(1) + 256 * d(2) + 4096 * d(3))
    IN  <<s, Iter(Step, <<>>, CeilDiv(Len(s), 4))>>[2]

Ok(x) == <<"ok", x>>
ParseErr == <<"err">>

\* BigUint::from_str_radix(s, 16): Err(ParseBigIntError::empty) for the empty
\* string, else the number (any count of digits)
FromStrRadix16(s) ==
    IF s = <<>> THEN ParseErr
    ELSE Ok(HexParse(s))

(***************************************************************************)
(* The two fields.                                                         *)
(***************************************************************************)
\* winter_math::fields::f64: p = 2^64 - 2^32 + 1
GL_P == <<1, 0, 65535, 65535>>

\* Fr's modulus r =
\* 21888242871839275222246405745257275088548364400416034343698204186575808495617
\*   = 0x30644e72e131a029b85045b68181585d2833e84879b9709143e1f593f0000001
BN128_R ==
    <<1, 61440, 62867, 17377, 28817, 31161, 59464, 10291,
      22621, 33153, 17846, 47184, 41001, 57649, 20082, 12388>>

\* the decimal string to_montgomery parses r from
R_DECIMAL ==
    <<2,1,8,8,8,2,4,2,8,7,1,8,3,9,2,7,5,2,2,2,2,4,6,4,0,5,7,4,5,2,5,7,2,7,5,0,8,8,5,
      4,8,3,6,4,4,0,0,4,1,6,0,3,4,3,4,3,6,9,8,2,0,4,1,8,6,5,7,5,8,0,8,4,9,5,6,1,7>>

\* BaseElement::from(u64) / BaseElement::new: the element u mod p (u < 2^64 < 2p)
ElemFromU64(u) == IF Geq(u, GL_P) THEN BigSub(u, GL_P) ELSE u

\* BaseElement::as_int: the canonical integer of the element, in [0, p)
AsInt(e) == e

\* Fr::add_assign, Fr::mul_assign by a small constant, on canonical values
FrAddV(a, b) == LowDigits(ReduceBy(BigAdd(a, b), BN128_R), FrDigits)

FrMulSmallV(a, k) == MulAddMod(a, k, 0, BN128_R)

\* v * 2^k mod r: the shifted number when that is below r, else 14 bits at a
\* time (w[1] counts the bits still to come)
\* (MontOf: the Montgomery form of a canonical value, v * 2^256 mod r, the number
\* whose limbs FrRepr holds for the element v)
FrMulPow2V(v, k) ==
    LET Step(w) == <<w[1] - Min(14, w[1]), FrMulSmallV(w[2], 2^Min(14, w[1]))>>
        d       == k \div 16
    IN  Then(LowDigits(ShlDigits(v, d), FrDigits), LAMBDA sh :
        IF k % 16 = 0 /\ d < FrDigits /\ IsZero(SubSeq(v, FrDigits - d + 1, FrDigits))
           /\ Lt(sh, BN128_R)
        THEN sh
        ELSE Iter(Step, <<k, v>>, CeilDiv(k, 14))[2])

MontOf(v) == FrMulPow2V(v, 256)

\* n * 2^(-k) mod r for n < r and k <= 14: r = 1 mod 2^28, so adding
\* ((-n) mod 2^k) * r to n clears its low k bits
HalveR(n, k) ==
    LET m == (2^k - (n[1] % (2^k))) % (2^k)
    IN  Then(BigAdd(n, MulSmall(BN128_R, m)), LAMBDA t :
        LowDigits(ReduceBy(DivSmall(t, 2^k)[1], BN128_R), FrDigits))

\* Montgomery reduction: the canonical value of the element whose stored
\* number is n, n * 2^(-256) mod r, 14 bits at a time (w[1] counts the bits
\* still to come)
MontReduce(n) ==
    LET Step(w) == <<w[1] - Min(14, w[1]), HalveR(w[2], Min(14, w[1]))>>
    IN  <<n, Iter(Step, <<256, n>>, CeilDiv(256, 14))[2]>>[2]

(***************************************************************************)
(* Fr (ff's derived PrimeField over FrRepr([u64; 4])).  An element is      *)
(*   <<"val", v>>       a valid element, v its canonical value in [0, r);  *)
(*                      its stored limbs are the Montgomery form v*2^256   *)
(*                      mod r                                              *)
(*   <<"raw", n>>       stored limbs n that are no valid representation    *)
(*                      (n >= r, or limbs of mixed origin)                 *)
(*   <<"hash", in, st>> the output of the Poseidon sponge on inputs in and *)
(*                      initial state st, an opaque element                *)
(***************************************************************************)
FrVal(v) == <<"val", v>>
FrRaw(n) == <<"raw", n>>
FrHash(in, st) == <<"hash", in, st>>
FrKind(f) == f[1]

FrZero == FrVal(Zeros(FrDigits))

Some(x) == <<"some", x>>
NoneFr == <<"none">>
Panic == <<"panic">>

\* PrimeField::from_str: None for an empty string or a leading zero, else the
\* element res = res * 10 + digit folded over the digits in the field (so a
\* number >= r comes out reduced mod r)
FrFromStr(s) ==
    LET Step(w) ==
            <<w[1] + 1, FrAddV(FrMulSmallV(w[2], 10), Small(s[w[1]], 1))>>
    IN  IF s = <<>> THEN NoneFr
        ELSE IF s = <<0>> THEN Some(FrZero)
        ELSE IF s[1] = 0 THEN NoneFr
        ELSE Some(FrVal(Iter(Step, <<1, Zeros(FrDigits)>>, Len(s))[2]))

\* Option::unwrap / Result::unwrap
\* (a Result or an Option is <<"ok", x>>, <<"some", x>>, <<"err">> or <<"none">>;
\* unwrap() of the last two panics)
IsErr(o) == o[1] \in {"none", "err"}
Unwrap(o) == IF IsErr(o) THEN Panic ELSE o[2]

\* Fr::into_repr: the canonical value; stored limbs that are no valid
\* representation go through the same Montgomery reduction
IntoRepr(f) == IF FrKind(f) = "val" THEN f[2] ELSE MontReduce(f[2][1] \o f[2][2] \o f[2][3] \o f[2][4])

\* ff::to_hex(e): into_repr, big-endian, as 64 hex digits
ToHex(f) == HexEncode(IntoRepr(f))

(***************************************************************************)
(* u64 limbs.  A limb is a 4-digit number, or -- for the limbs of a sponge *)
(* output, whose value the model does not know -- <<"limb", t, i>>, limb i *)
(* of the stored representation of the element t.                          *)
(***************************************************************************)
IsU64(l) == Len(l) = LimbDigits
HashLimb(t, i) == <<"limb", t, i>>
HashLimbs(t) == <<HashLimb(t, 1), HashLimb(t, 2), HashLimb(t, 3), HashLimb(t, 4)>>

\* limb i (1..4, least significant first) of a number of 16 digits
LimbOf(n, i) == SubSeq(n, (i - 1) * LimbDigits + 1, i * LimbDigits)
LimbsOf(n) == <<LimbOf(n, 1), LimbOf(n, 2), LimbOf(n, 3), LimbOf(n, 4)>>
\* the number whose limbs are l[1..4]
Concat(l) == l[1] \o l[2] \o l[3] \o l[4]

\* e.0 .0: the four limbs Fr stores
StoredLimbs(f) ==
    IF FrKind(f) = "val" THEN LimbsOf(MontOf(f[2]))
    ELSE IF FrKind(f) = "raw" THEN f[2]
    ELSE HashLimbs(f)

\* the Fr whose stored limbs are l (the limbs are not compared with r)
FrOfLimbs(l) ==
    IF \A i \in 1..DIGEST_SIZE : IsU64(l[i])
    THEN IF Lt(Concat(l), BN128_R) THEN FrVal(MontReduce(Concat(l))) ELSE FrRaw(l)
    ELSE IF l = HashLimbs(l[1][2]) THEN l[1][2]
    ELSE FrRaw(l)

(***************************************************************************)
(* digest_bn128.rs: ElementDigest([BaseElement; 4])                        *)
(***************************************************************************)
\* BaseElement::from(limb); the limbs of a sponge output are kept as they are
ElemFromLimb(l) == IF IsU64(l) THEN ElemFromU64(l) ELSE l

\* impl From<&Fr> for ElementDigest
FromFr(e) ==
    Then(StoredLimbs(e), LAMBDA l :
        LET Step(w) == Append(w, ElemFromLimb(l[Len(w) + 1]))
        IN  Iter(Step, <<>>, DIGEST_SIZE))

\* impl Into<Fr> for ElementDigest
IntoFr(d) == FrOfLimbs(<<AsInt(d[1]), AsInt(d[2]), AsInt(d[3]), AsInt(d[4])>>)

\* FieldMapping::to_BN128
ToBN128(e) ==
    LET Step(w) ==
            <<w[1] + 1, BigAdd(w[2], ShlDigits(AsInt(e[w[1] + 1]), w[1] * LimbDigits))>>
    IN  Then(Iter(Step, <<1, AsInt(e[1])>>, DIGEST_SIZE - 1)[2], LAMBDA r :
        Then(ToDecString(r), LAMBDA s :
        Unwrap(FrFromStr(s))))

\* BigUint::from_str_radix(s, 10) of a number below 2^256
FromStrRadix10(s) ==
    LET Step(w) ==
            <<w[1] + 1, LowDigits(MulSmallAdd(w[2], 10, s[w[1]]), FrDigits)>>
    IN  IF s = <<>> THEN ParseErr
        ELSE Ok(Iter(Step, <<1, Zeros(FrDigits)>>, Len(s))[2])

\* FieldMapping::to_montgomery
ToMontgomery(e) ==
    Then(FromStrRadix16(TrimStartZeros(ToHex(e))), LAMBDA ee :
    Then(FromStrRadix10(R_DECIMAL), LAMBDA r :
    IF IsErr(ee) \/ IsErr(r) THEN Panic
    ELSE Then(BigMod(ShlDigits(ee[2], 256 \div 16), r[2]), LAMBDA m :
         Then(ToDecString(m), LAMBDA s :
         Unwrap(FrFromStr(s))))))

RECURSIVE GLLoop(_, _, _)
\* for i in 0..4 { t = f & mask; result[i] = from(t.to_u64()); f = f >> 64 }
GLLoop(f, i, result) ==
    IF i > DIGEST_SIZE THEN result
    ELSE GLLoop(ShrDigits(f, LimbDigits), i + 1,
                Append(result, ElemFromU64(LowDigits(f, LimbDigits))))

\* FieldMapping::to_GL
ToGL(f) ==
    Then(FromStrRadix16(TrimStartZeros(ToHex(f))), LAMBDA n :
    IF IsErr(n) THEN Panic ELSE GLLoop(n[2], 1, <<>>))

(***************************************************************************)
(* linearhash_bn128.rs: LinearHashBN128                                    *)
(***************************************************************************)
\* Poseidon::hash(&inp, &init_state) when it succeeds: the sponge is opaque,
\* its output is a term over its two arguments (so it is collision-free)
PoseidonHash(inp, init_state) == FrHash(inp, init_state)

\* Fr::add_assign and Fr::mul_assign by 2^k (OFFSET_2_64, OFFSET_2_128)
FrAdd(a, b) == FrVal(FrAddV(a[2], b[2]))
FrMulPow2(e, k) == FrVal(FrMulPow2V(e[2], k))

\* the number of packed values absorbed by one sponge call
\* (if inHash.len() == 16)
BufferCap == 16

\* the state of the packing loop: <<acc, accN, vals3>>
PackInit == <<FrZero, 0, <<>> >>

\* one iteration of the inner loop of hash_element_matrix, on element elem
PackElem(ps, elem) ==
    LET accN == ps[2] + 1
        off  == IF ps[2] = 1 THEN 64 ELSE IF ps[2] = 2 THEN 128 ELSE 0
    IN  Then(Unwrap(FrFromStr(ToDecString(AsInt(elem)))), LAMBDA e0 :
        Then(FrAdd(ps[1], IF off = 0 THEN e0 ELSE FrMulPow2(e0, off)), LAMBDA acc :
        IF accN = 3 THEN <<FrZero, 0, Append(ps[3], acc)>> ELSE <<acc, accN, ps[3]>>))

\* (variant: a packed value is closed at the end of every column)
PackCol_FlushAtColumnEnd(ps, col) ==
    LET Step(w) == <<w[1] + 1, PackElem(w[2], col[w[1]])>>
    IN  Then(Iter(Step, <<1, ps>>, Len(col))[2], LAMBDA qs :
        IF qs[2] > 0 THEN <<FrZero, 0, Append(qs[3], qs[1])>> ELSE qs)

\* for elem in col.iter() { .. }
PackCol(ps, col) ==
    LET Step(w) == <<w[1] + 1, PackElem(w[2], col[w[1]])>>
    IN  <<ps, col, Iter(Step, <<1, ps>>, Len(col))[2]>>[3]

\* for col in columns.iter() { .. }; if accN > 0 { vals3.push(acc) }: the
\* packed values vals3
PackColumns(columns) ==
    LET Step(w) == <<w[1] + 1, PackCol(w[2], columns[w[1]])>>
    IN  Then(Iter(Step, <<1, PackInit>>, Len(columns))[2], LAMBDA ps :
        IF ps[2] > 0 THEN Append(ps[3], ps[1]) ELSE ps[3])

\* (variant: only the empty input returns early)
EarlyReturn_OnlyEmpty(vals, st0) == IF Len(vals) = 0 THEN Some(st0) ELSE NoneFr

\* the two early returns: Some(value returned), or None to go on to the sponge
EarlyReturn(vals, st0) ==
    IF Len(vals) = 0 THEN Some(st0)
    ELSE IF Len(vals) = 1 THEN Some(vals[1])
    ELSE NoneFr

\* (variant: every sponge call starts from the zero state)
Absorbed_FreshState(buf, st0) == <<PoseidonHash(buf, FrZero), <<>> >>

\* st = self.h.hash(&inHash, &st)?; inHash = vec![]: the new <<st, inHash>>
\* after a call that succeeds
Absorbed(buf, st0) == <<PoseidonHash(buf, st0), <<>> >>

\* hash_element_matrix when no sponge call fails
HashElementMatrixOk(columns) ==
    Then(PackColumns(columns), LAMBDA vals :
        LET Step(w) ==
                LET buf == Append(w[2], vals[w[1]])
                IN  IF Len(buf) = BufferCap
                    THEN <<w[1] + 1, Absorbed(buf, w[3])[2], Absorbed(buf, w[3])[1]>>
                    ELSE <<w[1] + 1, buf, w[3]>>
        IN  IF ~IsErr(EarlyReturn(vals, FrZero)) THEN EarlyReturn(vals, FrZero)[2]
            ELSE Then(Iter(Step, <<1, <<>>, FrZero>>, Len(vals)), LAMBDA fin :
                 IF Len(fin[2]) > 0 THEN Absorbed(fin[2], fin[3])[1] ELSE fin[3]))

\* (variant: the two digests converted by to_BN128)
MergeInput_ToBN128(values) == <<ToBN128(values[1]), ToBN128(values[2])>>

\* (variant: values[0] taken twice)
MergeInput_FirstTwice(values) == <<IntoFr(values[1]), IntoFr(values[1])>>

\* let inp = vec![values[0].into(), values[1].into()]
MergeInput(values) ==
    LET Step(w) == Append(w, IntoFr(values[Len(w) + 1]))
    IN  Iter(Step, <<>>, 2)

\* Hasher::merge(values); ok says whether the sponge call succeeds (unwrap()
\* panics when it does not)
MergeResult(values, ok) ==
    Then(MergeInput(values), LAMBDA inp :
        IF ok THEN FromFr(PoseidonHash(inp, FrZero)) ELSE Panic)

Merge(a, b) == MergeResult(<<a, b>>, TRUE)

(***************************************************************************)
(* merklehash_bn128::MerkleTree, as the specification describes it; the    *)
(* benchmark run_merklehash is its caller.                                 *)
(* An odd-length level pairs its last node with itself.                    *)
(***************************************************************************)
ShapeMismatch == [error |-> "ShapeMismatch"]
IndexOutOfRange == <<"IndexOutOfRange">>
IsError(t) == "error" \in DOMAIN t

\* the row idx (from 0) of the column-major matrix: values[c*n + idx]
RowAt(values, n_pols, n, idx) ==
    LET Step(w) == Append(w, values[Len(w) * n + idx + 1])
    IN  Iter(Step, <<>>, n_pols)

\* leaf = reduce_row([row_elements]) as a digest
LeafDigest(row) == FromFr(HashElementMatrixOk(<<row>>))

\* the leaves L[0..n)
Leaves(values, n_pols, n) ==
    LET Step(w) == Append(w, LeafDigest(RowAt(values, n_pols, n, Len(w))))
    IN  Iter(Step, <<>>, n)

\* (variant: every node is paired with itself)
SiblingIndex_Self(idx, len) == idx

\* the position (from 0) of the sibling of node idx in a level of len nodes
SiblingIndex(idx, len) ==
    LET s == IF idx % 2 = 0 THEN idx + 1 ELSE idx - 1
    IN  IF s >= len THEN idx ELSE s

\* level_{k+1}[j] = merge(level_k[2j], level_k[2j+1])
NextLevel(level) ==
    LET Step(w) ==
            Append(w, Merge(level[2 * Len(w) + 1],
                            level[SiblingIndex(2 * Len(w), Len(level)) + 1]))
    IN  Iter(Step, <<>>, CeilDiv(Len(level), 2))

\* the levels from the leaves up to the root (n levels at most)
BuildLevels(leaves) ==
    LET Step(w) ==
            IF Len(w[Len(w)]) <= 1 THEN w ELSE Append(w, NextLevel(w[Len(w)]))
    IN  <<leaves, Iter(Step, <<leaves>>, Len(leaves))>>[2]

\* merkelize(values, n_pols, n)
Merkelize(values, n_pols, n) ==
    IF Len(values) # n_pols * n THEN ShapeMismatch
    ELSE Then(BuildLevels(Leaves(values, n_pols, n)), LAMBDA levels :
         [values |-> values, n_pols |-> n_pols, n |-> n, levels |-> levels])

\* root()
Root(tree) == tree.levels[Len(tree.levels)][1]

\* the siblings from the leaf level up to the level below the root
Path(levels, idx) ==
    LET Step(w) ==
            <<w[1] \div 2,
              Append(w[2], levels[Len(w[2]) + 1][SiblingIndex(w[1], Len(levels[Len(w[2]) + 1])) + 1])>>
    IN  Iter(Step, <<idx, <<>> >>, Len(levels) - 1)[2]

\* get_group_proof(idx): <<row elements, sibling path>>
GetGroupProof(tree, idx) ==
    IF idx < 0 \/ idx >= tree.n THEN IndexOutOfRange
    ELSE <<RowAt(tree.values, tree.n_pols, tree.n, idx), Path(tree.levels, idx)>>

\* merge(current, sibling) if the index is even, merge(sibling, current) if odd
FoldStep(current, sibling, idx) ==
    Merge(IF idx % 2 = 0 THEN current ELSE sibling, IF idx % 2 = 0 THEN sibling ELSE current)

\* the running digest folded over the path: <<index, levels done, digest>>
FoldPath(leaf, path, idx) ==
    LET Step(w) == <<w[1] \div 2, w[2] + 1, FoldStep(w[3], path[w[2] + 1], w[1])>>
    IN  <<leaf, Iter(Step, <<idx, 0, leaf>>, Len(path))[3]>>[2]

\* verify_group_proof(root, proof, idx, row_elements)
VerifyGroupProof(root, path, idx, row) ==
    Then(LeafDigest(row), LAMBDA leaf : FoldPath(leaf, path, idx) = root)

(***************************************************************************)
(* State.                                                                  *)
(*   fm_ops, fm_vals   a run of field-mapping calls: the values            *)
(*                     fm_vals[1] (the input), fm_vals[i+1] the result of  *)
(*                     call fm_ops[i] on fm_vals[i].  A value is           *)
(*                     [k |-> "digest" | "fr" | "panic", v |-> ..]         *)
(*   lh_op, lh_args    the call of the hasher in progress: "hash" with its *)
(*                     columns, "merge" with its two digests, or "none"    *)
(*   lh_pc             where hash_element_matrix stands: "idle", "push"    *)
(*                     (top of the loop over vals3), "absorb" (the buffer  *)
(*                     just reached 16), "tail" (after the loop), "done"   *)
(*   vals3, inHash, st, lh_pos   the locals of hash_element_matrix; lh_pos *)
(*                     counts the packed values pushed so far              *)
(*   lh_calls          the sponge calls made: <<inputs, state, succeeded>> *)
(*   lh_result         what the call returned: <<"ok", x>>, <<"err">>, a   *)
(*                     digest, Panic, or <<"none">> while it runs          *)
(*   mt_pc             "new", "built", "proved", "tampered", "verified",   *)
(*                     "failed"                                            *)
(*   mt_tree           the tree merkelize built (or its error)             *)
(*   mt_idx, mt_proof  the index asked of get_group_proof and its answer   *)
(*   mt_args           the <<idx, row, path>> handed to verify_group_proof *)
(*   mt_tamper         what was changed in mt_args: <<"none">>,            *)
(*                     <<"row", k>>, <<"path", k>> or <<"idx">>            *)
(*   mt_result         the verdict of verify_group_proof                   *)
(***************************************************************************)
VARIABLES fm_ops, fm_vals,
          lh_op, lh_args, lh_pc, vals3, inHash, st, lh_pos, lh_calls, lh_result,
          mt_pc, mt_tree, mt_idx, mt_proof, mt_args, mt_tamper, mt_result

fieldVars == <<fm_ops, fm_vals>>
hashVars == <<lh_op, lh_args, lh_pc, vals3, inHash, st, lh_pos, lh_calls, lh_result>>
treeVars == <<mt_pc, mt_tree, mt_idx, mt_proof, mt_args, mt_tamper, mt_result>>
vars == <<fieldVars, hashVars, treeVars>>

None == <<"none">>

FieldIdle == fm_ops = <<>> /\ fm_vals = <<>>

HashIdle ==
    /\ lh_op = "none"
    /\ lh_args = <<>>
    /\ lh_pc = "idle"
    /\ vals3 = <<>>
    /\ inHash = <<>>
    /\ st = FrZero
    /\ lh_pos = 0
    /\ lh_calls = <<>>
    /\ lh_result = None

TreeIdle ==
    /\ mt_pc = "new"
    /\ mt_tree = None
    /\ mt_idx = 0
    /\ mt_proof = None
    /\ mt_args = None
    /\ mt_tamper = None
    /\ mt_result = None

(***************************************************************************)
(* SpecField: runs of field-mapping calls.                                 *)
(***************************************************************************)
\* the longest run of field-mapping calls
MaxChain == 3

U64(k) == Small(k, LimbDigits)
P_MINUS_1 == BigSub(GL_P, U64(1))
R_MINUS_1 == BigSub(BN128_R, Small(1, FrDigits))
U64_MAX == <<Base - 1, Base - 1, Base - 1, Base - 1>>
ZeroDigest == <<U64(0), U64(0), U64(0), U64(0)>>

\* the digest of the test test_fr_to_mont_to_element_digest_and_versus
TEST_B4 == <<U64(3), U64(1003), U64(2003), U64(0)>>

\* digests (all elements canonical): below r, r - 1, r itself, above r
DigestInputs ==
    {TEST_B4, LimbsOf(R_MINUS_1), LimbsOf(BN128_R)}
        \cup {<<a, b, U64(0), c>> : a \in {U64(0), P_MINUS_1}, b \in {U64(0), U64(1)},
                                    c \in {U64(0), P_MINUS_1}}

\* valid elements of Fr: 0, 1, the test's, r - 1, values with a limb >= p, and
\* the element whose stored limbs are <<p, 0, 0, 0>>
FrInputs ==
    {FrVal(Small(0, FrDigits)), FrVal(Small(1, FrDigits)), FrVal(Concat(TEST_B4)),
     FrVal(R_MINUS_1), FrVal(Pad(GL_P, FrDigits)),
     FrVal(U64(7) \o U64_MAX \o U64(0) \o U64(0)),
     FrOfLimbs(<<GL_P, U64(0), U64(0), U64(0)>>)}

DigestVal(d) == IF d = Panic THEN [k |-> "panic", v |-> Panic] ELSE [k |-> "digest", v |-> d]
FrResult(f) == IF f = Panic THEN [k |-> "panic", v |-> Panic] ELSE [k |-> "fr", v |-> f]

FmCur == fm_vals[Len(fm_vals)]

FieldInit ==
    /\ fm_ops = <<>>
    /\ fm_vals \in {<<DigestVal(d)>> : d \in DigestInputs}
                       \cup {<<FrResult(f)>> : f \in FrInputs}
    /\ HashIdle
    /\ TreeIdle

FmApply(op, res) ==
    /\ Len(fm_ops) < MaxChain
    /\ fm_ops' = Append(fm_ops, op)
    /\ fm_vals' = Append(fm_vals, res)
    /\ UNCHANGED <<hashVars, treeVars>>

\* ElementDigest::to_BN128(&e)
FmToBN128 ==
    /\ FmCur.k = "digest"
    /\ FmApply("to_BN128", FrResult(ToBN128(FmCur.v)))

\* let f: Fr = e.into()
FmInto ==
    /\ FmCur.k = "digest"
    /\ FmApply("into", FrResult(IntoFr(FmCur.v)))

\* ElementDigest::to_montgomery(&f)
FmToMontgomery ==
    /\ FmCur.k = "fr"
    /\ FmApply("to_montgomery", FrResult(ToMontgomery(FmCur.v)))

\* ElementDigest::to_GL(&f)
FmToGL ==
    /\ FmCur.k = "fr"
    /\ FmApply("to_GL", DigestVal(ToGL(FmCur.v)))

\* ElementDigest::from(&f)
FmFrom ==
    /\ FmCur.k = "fr"
    /\ FmApply("from", DigestVal(FromFr(FmCur.v)))

FieldNext == FmToBN128 \/ FmInto \/ FmToMontgomery \/ FmToGL \/ FmFrom

SpecField == FieldInit /\ [][FieldNext]_vars

(***************************************************************************)
(* SpecHash: one call of hash_element_matrix, step by step, or of merge.   *)
(* A sponge call may fail (Poseidon::hash returns a Result).               *)
(***************************************************************************)
\* the most elements of a generated matrix of one column, of one cut into
\* columns of equal length, and of one with elements near p
MaxElems == 51
MaxCutElems == 13
MaxTopElems == 7
\* the longest column of a matrix cut into columns of equal length
MaxColLen == 4

\* a u64 from a number below 2^31
U64Of(k) == <<k % Base, k \div Base, 0, 0>>

\* element k (from 1) of the flattened input: small numbers, or numbers just
\* below p
ElemAt(pat, k) ==
    IF pat = "low" THEN ElemFromU64(U64Of(k)) ELSE BigSub(P_MINUS_1, U64Of(k - 1))

\* the first n elements
Elems(pat, n) ==
    LET Step(w) == Append(w, ElemAt(pat, Len(w) + 1))
    IN  Iter(Step, <<>>, n)

\* s cut into columns of len elements (the last one may be shorter)
Chunks(s, len) ==
    LET Step(w) == Append(w, SubSeq(s, Len(w) * len + 1, Min(Len(s), (Len(w) + 1) * len)))
    IN  Iter(Step, <<>>, CeilDiv(Len(s), len))

\* the matrix of test_linearhashBN128: vec![e, e * 1000, e * 1000000] for e in
\* 0..100
TEST_INPUTS ==
    LET Step(w) == Append(w, <<ElemFromU64(U64Of(Len(w))), ElemFromU64(U64Of(Len(w) * 1000)),
                               ElemFromU64(U64Of(Len(w) * 1000000))>>)
    IN  Iter(Step, <<>>, 100)

\* matrices with empty columns
EmptyColumnInputs ==
    LET e == Elems("low", 4)
    IN  {<< <<>> >>, << <<>>, <<>> >>,
         << <<>>, <<e[1]>>, <<>> >>,
         << <<e[1]>>, <<>>, <<e[2], e[3], e[4]>>, <<>> >>}

HashInputs ==
    {Chunks(Elems("low", t), len) : t \in 0..MaxCutElems, len \in 1..MaxColLen}
    \cup {<<Elems("low", t)>> : t \in 0..MaxElems}
    \cup {Chunks(Elems("top", t), len) : t \in 1..MaxTopElems, len \in 1..MaxColLen}
    \cup EmptyColumnInputs
    \cup {TEST_INPUTS}

MergeInputs == {ZeroDigest, TEST_B4, LimbsOf(R_MINUS_1), <<U64(0), U64(0), U64(0), P_MINUS_1>>}

HashInit == FieldIdle /\ HashIdle /\ TreeIdle

\* hash_element_matrix(&columns) up to the loop over vals3
HashStart ==
    /\ lh_pc = "idle"
    /\ \E columns \in HashInputs :
           /\ lh_op' = "hash"
           /\ lh_args' = columns
           /\ vals3' = PackColumns(columns)
           /\ LET early == EarlyReturn(vals3', FrZero)
              IN  /\ lh_pc' = IF IsErr(early) THEN "push" ELSE "done"
                  /\ lh_result' = IF IsErr(early) THEN None ELSE Ok(early[2])
    /\ UNCHANGED <<inHash, st, lh_pos, lh_calls, fieldVars, treeVars>>

\* for val3 in vals3.iter() { inHash.push(val3.clone()); if inHash.len() == 16 ..
LoopPush ==
    /\ lh_pc = "push"
    /\ inHash' = Append(inHash, vals3[lh_pos + 1])
    /\ lh_pos' = lh_pos + 1
    /\ lh_pc' = IF Len(inHash') = BufferCap THEN "absorb"
                ELSE IF lh_pos' = Len(vals3) THEN "tail"
                ELSE "push"
    /\ UNCHANGED <<lh_op, lh_args, vals3, st, lh_calls, lh_result, fieldVars, treeVars>>

\* the Err of Poseidon::hash
SpongeErr == <<"err">>

\* a sponge call on the buffer and the running state; on success the loop goes
\* on at pc, on failure `?` returns the error
SpongeCall(pc, last) ==
    \E ok \in BOOLEAN :
        /\ lh_calls' = Append(lh_calls, <<inHash, st, ok>>)
        /\ IF ok
           THEN /\ st' = Absorbed(inHash, st)[1]
                /\ inHash' = Absorbed(inHash, st)[2]
                /\ lh_pc' = pc
                /\ lh_result' = IF last THEN Ok(st') ELSE lh_result
           ELSE /\ lh_pc' = "done"
                /\ lh_result' = SpongeErr
                /\ UNCHANGED <<st, inHash>>

\* .. { st = self.h.hash(&inHash, &st)?; inHash = vec![]; } }
LoopAbsorb ==
    /\ lh_pc = "absorb"
    /\ SpongeCall(IF lh_pos = Len(vals3) THEN "tail" ELSE "push", FALSE)
    /\ UNCHANGED <<lh_op, lh_args, vals3, lh_pos, fieldVars, treeVars>>

\* if inHash.len() > 0 { st = self.h.hash(&inHash, &st)?; } Ok(st)
FinalAbsorb ==
    /\ lh_pc = "tail"
    /\ IF Len(inHash) > 0
       THEN SpongeCall("done", TRUE)
       ELSE /\ lh_pc' = "done"
            /\ lh_result' = Ok(st)
            /\ UNCHANGED <<st, inHash, lh_calls>>
    /\ UNCHANGED <<lh_op, lh_args, vals3, lh_pos, fieldVars, treeVars>>

\* LinearHashBN128::merge(&[a, b])
MergeCall ==
    /\ lh_pc = "idle"
    /\ \E a \in MergeInputs, b \in MergeInputs, ok \in BOOLEAN :
           /\ lh_op' = "merge"
           /\ lh_args' = <<a, b>>
           /\ lh_calls' = <<<<MergeInput(<<a, b>>), FrZero, ok>>>>
           /\ lh_result' = MergeResult(<<a, b>>, ok)
    /\ lh_pc' = "done"
    /\ UNCHANGED <<vals3, inHash, st, lh_pos, fieldVars, treeVars>>

HashNext == HashStart \/ LoopPush \/ LoopAbsorb \/ FinalAbsorb \/ MergeCall

SpecHash == HashInit /\ [][HashNext]_vars

(***************************************************************************)
(* SpecTree: merkelize, get_group_proof, an optional single change to the  *)
(* proof, the row or the index, then verify_group_proof.                   *)
(***************************************************************************)
\* the most rows and columns of a matrix
MaxRows == 5
MaxPols == 4

\* the value of every element of row idx: all rows equal, all rows distinct,
\* rows equal in pairs, rows alternating
RowValue(pat, idx) ==
    IF pat = "equal" THEN 7
    ELSE IF pat = "distinct" THEN idx
    ELSE IF pat = "pairs" THEN idx \div 2
    ELSE idx % 2

RowPatterns == {"equal", "distinct", "pairs", "alternating"}

\* the column-major matrix whose row idx holds RowValue(pat, idx) + c in column c
Matrix(pat, n_pols, n) ==
    LET Step(w) == Append(w, ElemFromU64(U64Of(RowValue(pat, Len(w) % n) + (Len(w) \div n))))
    IN  Iter(Step, <<>>, n_pols * n)

TreeInit == FieldIdle /\ HashIdle /\ TreeIdle

\* MerkleTree::merkelize(pols, n_pols, n)
MtMerkelize ==
    /\ mt_pc = "new"
    /\ \E pat \in RowPatterns, n_pols \in {1, MaxPols}, n \in 1..MaxRows, short \in 0..1 :
           /\ short = 1 => pat = "equal"
           /\ LET values == Matrix(pat, n_pols, n)
                  tree   == Merkelize(SubSeq(values, 1, Len(values) - short), n_pols, n)
              IN  /\ mt_tree' = tree
                  /\ mt_pc' = IF IsError(tree) THEN "failed" ELSE "built"
    /\ UNCHANGED <<mt_idx, mt_proof, mt_args, mt_tamper, mt_result, fieldVars, hashVars>>

\* tree.get_group_proof(idx)
MtGetGroupProof ==
    /\ mt_pc = "built"
    /\ \E idx \in 0..mt_tree.n :
           LET proof == GetGroupProof(mt_tree, idx)
           IN  /\ mt_idx' = idx
               /\ mt_proof' = proof
               /\ mt_args' = IF proof = IndexOutOfRange THEN None
                             ELSE <<idx, proof[1], proof[2]>>
               /\ mt_pc' = IF proof = IndexOutOfRange THEN "failed" ELSE "proved"
    /\ UNCHANGED <<mt_tree, mt_tamper, mt_result, fieldVars, hashVars>>

\* one element of the row replaced by another element
MtTamperRow ==
    /\ mt_pc = "proved"
    /\ \E k \in 1..Len(mt_args[2]), v \in 0..2 :
           /\ ElemFromU64(U64Of(v)) # mt_args[2][k]
           /\ mt_args' = <<mt_args[1], [mt_args[2] EXCEPT ![k] = ElemFromU64(U64Of(v))],
                           mt_args[3]>>
           /\ mt_tamper' = <<"row", k>>
    /\ mt_pc' = "tampered"
    /\ UNCHANGED <<mt_tree, mt_idx, mt_proof, mt_result, fieldVars, hashVars>>

\* one sibling of the path replaced by another digest
MtTamperPath ==
    /\ mt_pc = "proved"
    /\ \E k \in 1..Len(mt_args[3]) :
           \E l \in 0..Len(mt_tree.levels) :
               \E j \in 1..(IF l = 0 THEN 2 ELSE Len(mt_tree.levels[l])) :
                   LET d == IF l = 0 THEN (IF j = 1 THEN ZeroDigest ELSE TEST_B4)
                            ELSE mt_tree.levels[l][j]
                   IN  /\ d # mt_args[3][k]
                       /\ mt_args' = <<mt_args[1], mt_args[2], [mt_args[3] EXCEPT ![k] = d]>>
                       /\ mt_tamper' = <<"path", k>>
    /\ mt_pc' = "tampered"
    /\ UNCHANGED <<mt_tree, mt_idx, mt_proof, mt_result, fieldVars, hashVars>>

\* another index than the one the proof was made for
MtTamperIdx ==
    /\ mt_pc = "proved"
    /\ \E idx \in 0..(2 * MaxRows + 1) :
           /\ idx # mt_args[1]
           /\ mt_args' = <<idx, mt_args[2], mt_args[3]>>
           /\ mt_tamper' = <<"idx">>
    /\ mt_pc' = "tampered"
    /\ UNCHANGED <<mt_tree, mt_idx, mt_proof, mt_result, fieldVars, hashVars>>

\* tree.verify_group_proof(&root, &mp, idx, &group_elements)
MtVerifyGroupProof ==
    /\ mt_pc \in {"proved", "tampered"}
    /\ mt_result' = VerifyGroupProof(Root(mt_tree), mt_args[3], mt_args[1], mt_args[2])
    /\ mt_pc' = "verified"
    /\ UNCHANGED <<mt_tree, mt_idx, mt_proof, mt_args, mt_tamper, fieldVars, hashVars>>

TreeNext ==
    MtMerkelize \/ MtGetGroupProof \/ MtTamperRow \/ MtTamperPath \/ MtTamperIdx
        \/ MtVerifyGroupProof

SpecTree == TreeInit /\ [][TreeNext]_vars

(***************************************************************************)
(* Claims about the field mapping (SpecField).                             *)
(***************************************************************************)
\* the calls to op made so far: the indices i with fm_ops[i] = op
FmCalls(op) == {i \in 1..Len(fm_ops) : fm_ops[i] = op}

\* a u64 written in decimal
U64Dec(s) == LowDigits(FromStrRadix10(s)[2], LimbDigits)

\* the expected value of test_fr_to_mont_to_element_digest_and_versus:
\* [10593660675180540444, 2538813791642109216, 4942736554053463004,
\*  3183287946373923876]
TEST_EXPECTED ==
    <<U64Dec(<<1,0,5,9,3,6,6,0,6,7,5,1,8,0,5,4,0,4,4,4>>),
      U64Dec(<<2,5,3,8,8,1,3,7,9,1,6,4,2,1,0,9,2,1,6>>),
      U64Dec(<<4,9,4,2,7,3,6,5,5,4,0,5,3,4,6,3,0,0,4>>),
      U64Dec(<<3,1,8,3,2,8,7,9,4,6,3,7,3,9,2,3,8,7,6>>)>>

\* l mod p for a 64-bit l
ModP(l) == IF Geq(l, GL_P) THEN BigSub(l, GL_P) ELSE l

\* C3: to_BN128 on a 4-tuple with N = limb0 + limb1*2^64 + limb2*2^128 +
\* limb3*2^192 returns the element N when N < r and fails with a typed range
\* error when N >= r; it never returns N reduced mod r.
C3_ToOuterRangeError ==
    \A i \in FmCalls("to_BN128") :
        LET N   == Concat(fm_vals[i].v)
            res == fm_vals[i + 1]
        IN  IF Lt(N, BN128_R) THEN res = FrResult(FrVal(N))
            ELSE res.k = "range_error"

\* C5: to_montgomery(x) returns x * 2^256 mod r for every x in [0, r), zero
\* included, without failing; and to_GL(to_montgomery(to_BN128([3, 1003, 2003,
\* 0]))) is the test's expected tuple.
C5_ToMontgomeryExact ==
    /\ \A i \in FmCalls("to_montgomery") :
           LET x   == fm_vals[i].v
               res == fm_vals[i + 1]
           IN  FrKind(x) = "val" =>
                   /\ res.k = "fr"
                   /\ FrKind(res.v) = "val"
                   /\ Lt(res.v[2], BN128_R)
                   /\ MontReduce(res.v[2]) = x[2]
    /\ (fm_vals[1] = DigestVal(TEST_B4) /\ fm_ops = <<"to_BN128", "to_montgomery", "to_GL">>)
           => FmCur = DigestVal(TEST_EXPECTED)

\* C6: for every element f of Fr, ElementDigest::from(&f).into() = f.
C6_FromIntoIdentity ==
    \A i \in FmCalls("from") :
        (i < Len(fm_ops) /\ fm_ops[i + 1] = "into" /\ FrKind(fm_vals[i].v) = "val")
            => fm_vals[i + 2] = fm_vals[i]

\* C10: to_GL(x) returns, for every x in [0, r), zero included, the 4-tuple of
\* the 64-bit limbs of x each reduced mod p, without failing; so
\* to_BN128(to_GL(x)) = x when all four limbs of x are below p.
C10_ToInnerLimbs ==
    \A i \in FmCalls("to_GL") :
        LET x   == fm_vals[i].v
            res == fm_vals[i + 1]
        IN  FrKind(x) = "val" =>
                /\ res.k = "digest"
                /\ \A j \in 1..DIGEST_SIZE : res.v[j] = ModP(LimbOf(x[2], j))
                /\ (/\ i < Len(fm_ops)
                    /\ fm_ops[i + 1] = "to_BN128"
                    /\ \A j \in 1..DIGEST_SIZE : Lt(LimbOf(x[2], j), GL_P))
                       => fm_vals[i + 2] = FrResult(x)

(***************************************************************************)
(* Claims about the leaf hasher (SpecHash).                                *)
(***************************************************************************)
\* the columns traversed in order, each from its first to its last element
Flatten(columns) ==
    LET Step(w) == <<w[1] + 1, w[2] \o columns[w[1]]>>
    IN  Iter(Step, <<1, <<>> >>, Len(columns))[2]

\* s[i] (from 1), zero past the end of s
Slot(s, i) == IF i <= Len(s) THEN s[i] ELSE U64(0)

\* s[3k] + s[3k+1]*2^64 + s[3k+2]*2^128 (k from 0) as an element of Fr
Triple(s, k) ==
    FrVal(Slot(s, 3 * k + 1) \o Slot(s, 3 * k + 2) \o Slot(s, 3 * k + 3) \o U64(0))

Triples(s) ==
    LET Step(w) == Append(w, Triple(s, Len(w)))
    IN  Iter(Step, <<>>, CeilDiv(Len(s), 3))

\* the flattened input of the call of hash_element_matrix in progress
HashSeq == Flatten(lh_args)

\* C7: hash_element_matrix makes no sponge call when the input yields at most
\* one packed value: with no element at all it returns zero, with 1, 2 or 3
\* elements it returns v0 + v1*2^64 + v2*2^128 itself; the sponge is called only
\* when there are two or more packed values.
C7_NoSpongeForOnePacked ==
    lh_op = "hash" =>
        /\ CeilDiv(Len(HashSeq), 3) <= 1 =>
               /\ lh_calls = <<>>
               /\ lh_pc = "done"
               /\ lh_result = Ok(IF Len(HashSeq) = 0 THEN FrZero ELSE Triple(HashSeq, 0))
        /\ lh_calls # <<>> => CeilDiv(Len(HashSeq), 3) >= 2

C7_Witness ==
    /\ lh_op = "hash"
    /\ lh_pc = "done"
    /\ Len(lh_args) = 2
    /\ Len(HashSeq) = 2
    /\ lh_calls = <<>>
    /\ lh_result = Ok(Triple(HashSeq, 0))

\* C8: the packed values are the consecutive triples of the flattened element
\* sequence (slots past its end zero), ceil(len/3) of them; the grouping is not
\* restarted at a column boundary, so the result is the one of the single
\* column holding the same sequence.
C8_PackTriples ==
    lh_op = "hash" =>
        /\ vals3 = Triples(HashSeq)
        /\ Len(vals3) = CeilDiv(Len(HashSeq), 3)
        /\ (lh_pc = "done" /\ ~IsErr(lh_result))
               => lh_result = Ok(HashElementMatrixOk(<<HashSeq>>))

C8_Witness ==
    /\ lh_op = "hash"
    /\ lh_pc = "done"
    /\ ~IsErr(lh_result)
    /\ Len(lh_args) = 2
    /\ Len(lh_args[1]) = 4
    /\ Len(lh_args[2]) = 3
    /\ lh_args[1][1] = P_MINUS_1
    /\ vals3 = Triples(HashSeq)

\* the packed values call j (from 1) absorbs, out of m
CallInput(packed, j) ==
    SubSeq(packed, BufferCap * (j - 1) + 1, Min(BufferCap * j, Len(packed)))

C9_State ==
    (lh_op = "hash" /\ Len(Triples(HashSeq)) >= 2) =>
        LET packed == Triples(HashSeq)
            m      == Len(packed)
        IN  /\ Len(inHash) <= BufferCap
            /\ Len(lh_calls) <= CeilDiv(m, BufferCap)
            /\ \A j \in 1..Len(lh_calls) :
                   /\ lh_calls[j][1] = CallInput(packed, j)
                   /\ lh_calls[j][2] = IF j = 1 THEN FrZero
                                       ELSE PoseidonHash(lh_calls[j - 1][1], lh_calls[j - 1][2])
                   /\ j < Len(lh_calls) => lh_calls[j][3]
            /\ (lh_calls # <<>> /\ lh_calls[Len(lh_calls)][3]) =>
                   /\ st = PoseidonHash(lh_calls[Len(lh_calls)][1], lh_calls[Len(lh_calls)][2])
                   /\ inHash = SubSeq(packed, BufferCap * Len(lh_calls) + 1, lh_pos)
            /\ lh_calls = <<>> => (st = FrZero /\ inHash = SubSeq(packed, 1, lh_pos))
            /\ lh_pc = "done" =>
                   /\ lh_calls # <<>>
                   /\ IF lh_calls[Len(lh_calls)][3]
                      THEN /\ Len(lh_calls) = CeilDiv(m, BufferCap)
                           /\ lh_pos = m
                           /\ lh_result = Ok(st)
                      ELSE lh_result = SpongeErr

C9_Step ==
    /\ lh_calls' # lh_calls =>
           /\ Len(lh_calls') = Len(lh_calls) + 1
           /\ SubSeq(lh_calls', 1, Len(lh_calls)) = lh_calls
           /\ lh_calls'[Len(lh_calls')][3] => inHash' = <<>>
    /\ (lh_calls # <<>> /\ ~lh_calls[Len(lh_calls)][3]) => lh_calls' = lh_calls

DigestInt(d) == AsInt(d[1]) \o AsInt(d[2]) \o AsInt(d[3]) \o AsInt(d[4])

\* C4 (as claimed): merge(a, b) is the sponge absorption of [to_outer(a),
\* to_outer(b)] with initial state zero, and the conversion merge applies to a
\* digest gives the same element as to_outer.
C4_MergeAbsorbsToOuter ==
    (lh_op = "merge" /\ lh_pc = "done") =>
        /\ lh_calls = <<<<<<ToBN128(lh_args[1]), ToBN128(lh_args[2])>>, FrZero,
                          lh_calls[1][3]>>>>
        /\ \A k \in 1..2 : IntoFr(lh_args[k]) = ToBN128(lh_args[k])

\* C4 (amended): merge(a, b) makes one sponge call with initial state zero on
\* the two elements whose stored (Montgomery) limbs are the limbs of a and of b,
\* unchecked: for a digest with integer N < r that is the element N * 2^-256 mod
\* r, which is to_outer's N only when N = 0.  The result is the digest of the
\* sponge's output; a failed call panics.
C4_MergeAbsorbsStoredLimbs ==
    (lh_op = "merge" /\ lh_pc = "done") =>
        /\ Len(lh_calls) = 1
        /\ lh_calls[1][2] = FrZero
        /\ Len(lh_calls[1][1]) = 2
        /\ \A k \in 1..2 :
               LET f == lh_calls[1][1][k]
                   N == DigestInt(lh_args[k])
               IN  /\ StoredLimbs(f) = LimbsOf(N)
                   /\ Lt(N, BN128_R) => (FrKind(f) = "val" /\ MontOf(f[2]) = N)
                   /\ (f = ToBN128(lh_args[k])) <=> IsZero(N)
        /\ lh_result = IF lh_calls[1][3]
                       THEN FromFr(PoseidonHash(lh_calls[1][1], FrZero))
                       ELSE Panic

C4_Witness ==
    /\ lh_op = "merge"
    /\ lh_pc = "done"
    /\ lh_args = <<TEST_B4, ZeroDigest>>
    /\ lh_calls[1][3]
    /\ lh_result = HashLimbs(PoseidonHash(lh_calls[1][1], FrZero))

(***************************************************************************)
(* Claims about the Merkle tree (SpecTree).                                *)
(***************************************************************************)
Pow2(k) == 2^k
Bit(idx, k) == (idx \div Pow2(k)) % 2

\* the node above row mt_idx at level k (from 1, the leaves)
NodeOnPath(k) == mt_tree.levels[k][mt_idx \div Pow2(k - 1) + 1]

\* the index handed to verify differs from mt_idx only at levels where the node
\* on the path equals its sibling, or above the top of the path
IdxIndistinguishable ==
    \A k \in 1..Len(mt_args[3]) :
        Bit(mt_args[1], k - 1) = Bit(mt_idx, k - 1) \/ NodeOnPath(k) = mt_args[3][k]

\* C1: for every tree built by merkelize and every row index i < n (also when
\* n is no power of two), verify_group_proof(root(), proof_i, i, row_i) is true
\* for (row_i, proof_i) = get_group_proof(i).
C1_RoundTrip ==
    (mt_pc = "verified" /\ mt_tamper = None) => mt_result = TRUE

C1_Witness ==
    /\ mt_pc = "verified"
    /\ mt_tamper = None
    /\ mt_tree.n = 3
    /\ mt_tree.n_pols = MaxPols
    /\ mt_idx = 2
    /\ Len(mt_args[3]) = 2
    /\ mt_result = TRUE

=============================================================================
